---- MODULE Spec2Model ----
(***************************************************************************)
(* A model of the analysis engine of astro-opencollective-analysis:       *)
(* src/lib/analysis.ts (the abridged module) and its full-featured        *)
(* variant.  Every report function is a pure function of a transaction    *)
(* list; the state machine draws a transaction list row by row and then   *)
(* applies report functions to it.                                        *)
(*                                                                         *)
(* Conventions of the model                                                *)
(*  - A JS string is a sequence of atoms (TLA+ strings).  Every literal   *)
(*    the code searches for is one atom or a sequence of atoms, so that   *)
(*    startsWith / includes / toLowerCase / split are computed on the     *)
(*    sequence as the code computes them on characters.                   *)
(*  - null is the sentinel Null, distinct from the empty string << >>.    *)
(*  - Money is an integer number of half cents (0.125 is 25, 1.00 is      *)
(*    200), arithmetic is exact; Math.round(x * 100) / 100 is round2.     *)
(*  - A JS number that may be NaN or Infinity is a record                 *)
(*    [kind |-> "num" | "NaN" | "Infinity", v |-> Int].                   *)
(*  - A timestamp is its local calendar date [year, month, day]; a text    *)
(*    that new Date cannot parse is InvalidDate.                          *)
(***************************************************************************)
EXTENDS Integers, Sequences, FiniteSets, TLC

VARIABLES
    txs,      \* the transaction list handed to the report functions
    arg,      \* the numeric argument of the last call (limit, monthsToAverage)
    called,   \* the report function applied last, "none" before any call
    result    \* what it returned

vars == <<txs, arg, called, result>>

----------------------------------------------------------------------------
(* Bounds of the model *)

MaxTx == 3        \* rows in a transaction list
MaxTxLedger == 2  \* rows in a list that mixes reversal markings
MaxTxCategory == 2 \* rows in a list of categorised debits
MaxArg == 3       \* largest limit / monthsToAverage passed explicitly

----------------------------------------------------------------------------
(* JS values *)

Null == <<"#null">>

Num(v) == [kind |-> "num", v |-> v]
NaN == [kind |-> "NaN", v |-> 0]
Infinity == [kind |-> "Infinity", v |-> 0]

\* a || b on strings: the empty string and null are falsy
OrElse(a, b) == IF a # << >> /\ a # Null THEN a ELSE b

\* a ?? b
Coalesce(a, b) == IF a # Null THEN a ELSE b

lowerAtom(a) ==
    CASE a = "Monthly Contribution" -> "monthly contribution"
      [] a = "Community Award" -> "community award"
      [] a = "Core " -> "core "
      [] a = "Maintainer" -> "maintainer"
      [] a = "Stipend" -> "stipend"
      [] a = "Salary" -> "salary"
      [] a = "GitHub" -> "github"
      [] a = "Consultant" -> "consultant"
      [] a = "Maintenance" -> "maintenance"
      [] OTHER -> a

toLowerCase(s) == [i \in 1..Len(s) |-> lowerAtom(s[i])]

startsWith(s, p) == Len(s) >= Len(p) /\ SubSeq(s, 1, Len(p)) = p

includes(s, p) ==
    \E i \in 1..(Len(s) - Len(p) + 1) : SubSeq(s, i, i + Len(p) - 1) = p

\* Array.prototype.slice(start) and slice(0, end) for integer arguments
sliceFrom(a, start) ==
    LET from == IF start < 0
                THEN (IF Len(a) + start < 0 THEN 0 ELSE Len(a) + start)
                ELSE (IF start > Len(a) THEN Len(a) ELSE start)
    IN  SubSeq(a, from + 1, Len(a))

sliceTo(a, end) ==
    LET to == IF end < 0
              THEN (IF Len(a) + end < 0 THEN 0 ELSE Len(a) + end)
              ELSE (IF end > Len(a) THEN Len(a) ELSE end)
    IN  SubSeq(a, 1, to)

\* Array.prototype.filter: the elements at the indices keep, in order
filter(a, keep) ==
    LET nth(r) == CHOOSE i \in keep : Cardinality({j \in keep : j < i}) = r - 1
    IN  [r \in 1..Cardinality(keep) |-> a[nth(r)]]

\* a sort that puts equal elements in the reverse of their order
sortTiesReversed(a, cmp) ==
    LET rank(i) == Cardinality({j \in 1..Len(a) : cmp[j, i] < 0})
                   + Cardinality({j \in (i + 1)..Len(a) : cmp[j, i] = 0}) + 1
    IN  [r \in 1..Len(a) |-> a[CHOOSE i \in 1..Len(a) : rank(i) = r]]

\* Array.prototype.sort, cmp[j, i] being the comparator's value on a[j] and a[i]:
\* stable, so an element's place is the number of elements that compare before
\* it plus the equal ones ahead of it.
sort(a, cmp) ==
    LET rank(i) == Cardinality({j \in 1..Len(a) : cmp[j, i] < 0})
                   + Cardinality({j \in 1..(i - 1) : cmp[j, i] = 0}) + 1
    IN  [r \in 1..Len(a) |-> a[CHOOSE i \in 1..Len(a) : rank(i) = r]]

abs(x) == IF x < 0 THEN -x ELSE x

\* Math.round(x * 100) / 100 for x = num / den half cents (den > 0): Math.round
\* is floor(y + 1/2), ties go toward +Infinity.
\* the rounding with Math.floor in the place of Math.round
roundRatioDown(num, den) == 2 * (num \div (2 * den))

roundRatio(num, den) == 2 * ((num + den) \div (2 * den))

round2(x) == roundRatio(x, 1)

----------------------------------------------------------------------------
(* Map<K, V> as the sequence of its entries in insertion order *)

mapHas(m, k) == \E i \in 1..Len(m) : m[i].key = k

mapGet(m, k, default) ==
    IF mapHas(m, k) THEN m[CHOOSE i \in 1..Len(m) : m[i].key = k].val ELSE default

mapSet(m, k, v) ==
    IF mapHas(m, k)
    THEN [i \in 1..Len(m) |-> IF m[i].key = k THEN [key |-> k, val |-> v] ELSE m[i]]
    ELSE Append(m, [key |-> k, val |-> v])

----------------------------------------------------------------------------
(* Transaction filter *)

truthyId(id) ==
    CASE id.type = "null" -> FALSE
      [] id.type = "string" -> id.str # << >>
      [] id.type = "number" -> id.num # 0

\* the filter without its test of Is Reversed
isReversedOrReverseOneFlag(tx) ==
    \/ tx.IsReverse = <<"true">>
    \/ truthyId(tx.ReverseTransactionID)

isReversedOrReverse(tx) ==
    \/ tx.IsReverse = <<"true">>
    \/ tx.IsReversed = <<"true">>
    \/ truthyId(tx.ReverseTransactionID)

\* new Date(s) of a text s that is no date: the Invalid Date, whose getFullYear()
\* and getMonth() are NaN (no calendar date has month 0)
InvalidDate == [year |-> 0, month |-> 0, day |-> 0]

\* the key "NaN-NaN"
NaNMonth == [y |-> 0, m |-> 0]

\* `${getFullYear()}-${String(getMonth() + 1).padStart(2, "0")}`: nothing is
\* thrown for the Invalid Date, the template prints NaN twice
getYearMonth(date) ==
    IF date = InvalidDate THEN NaNMonth ELSE [y |-> date.year, m |-> date.month]

\* a.localeCompare(b), and a < b / a > b, on "YYYY-MM" keys; the letters of
\* "NaN-NaN" come after every digit
monthCompare(a, b) ==
    IF a = NaNMonth \/ b = NaNMonth
    THEN (IF a = b THEN 0 ELSE IF b = NaNMonth THEN -1 ELSE 1)
    ELSE IF a.y # b.y THEN (IF a.y < b.y THEN -1 ELSE 1)
    ELSE IF a.m # b.m THEN (IF a.m < b.m THEN -1 ELSE 1)
    ELSE 0

counterparty(tx) ==
    OrElse(OrElse(tx.OppositeAccountName, tx.OppositeAccountHandle), <<"Unknown">>)

----------------------------------------------------------------------------
(* calculateMonthlyData *)

\* a for (const tx of transactions) loop is a recursion on the list: the rows
\* before the last one, then the last one
front(transactions) == SubSeq(transactions, 1, Len(transactions) - 1)

last(transactions) == transactions[Len(transactions)]

\* .sort((a, b) => a.month.localeCompare(b.month))
sortByMonth(rows) ==
    sort(rows, [j \in 1..Len(rows), i \in 1..Len(rows) |->
                   monthCompare(rows[j].month, rows[i].month)])

monthlyStep(m, tx) ==
    LET month == getYearMonth(tx.EffectiveDateTime)
        current == mapGet(m, month, [income |-> 0, expenses |-> 0])
    IN  IF isReversedOrReverse(tx) THEN m
        ELSE IF tx.CreditDebit = "CREDIT"
        THEN mapSet(m, month, [current EXCEPT !.income = @ + tx.Amount])
        ELSE mapSet(m, month, [current EXCEPT !.expenses = @ + abs(tx.Amount)])

RECURSIVE monthlyLoop(_)
monthlyLoop(transactions) ==
    IF transactions = << >>
    THEN << >>
    ELSE monthlyStep(monthlyLoop(front(transactions)), last(transactions))

monthlyEntry(e) ==
    [month |-> e.key,
     income |-> round2(e.val.income),
     expenses |-> round2(e.val.expenses),
     net |-> round2(e.val.income - e.val.expenses)]

calculateMonthlyData(transactions) ==
    LET m == monthlyLoop(transactions)
        rows == [i \in 1..Len(m) |-> monthlyEntry(m[i])]
    IN  sortByMonth(rows)

----------------------------------------------------------------------------
(* calculateRunwayProjection *)

RECURSIVE sumField(_, _)
sumField(rows, f) ==
    IF rows = << >> THEN 0
    ELSE sumField(SubSeq(rows, 1, Len(rows) - 1), f) + rows[Len(rows)][f]

recentMonthsOf(monthlyData, monthsToAverage) == sliceFrom(monthlyData, -monthsToAverage)

\* the balance summed over the averaging window only
currentBalanceOfWindow(monthlyData, recentMonths) == sumField(recentMonths, "net")

currentBalanceOf(monthlyData, recentMonths) == sumField(monthlyData, "net")

\* Math.round((sum / n) * 100) / 100; 0 / 0 is NaN
roundedMean(sum, n) == IF n = 0 THEN NaN ELSE Num(roundRatio(sum, n))

\* the runway clamped to zero
runwayMonthsClamped(currentBalance, sumIncome, sumExpenses, n) ==
    IF n = 0 THEN NaN
    ELSE IF sumIncome - sumExpenses >= 0 THEN Infinity
    ELSE IF currentBalance < 0 THEN Num(0)
    ELSE Num((currentBalance * n) \div abs(sumIncome - sumExpenses))

runwayMonths(currentBalance, sumIncome, sumExpenses, n) ==
    IF n = 0 THEN NaN
    ELSE IF sumIncome - sumExpenses >= 0 THEN Infinity
    ELSE Num((currentBalance * n) \div abs(sumIncome - sumExpenses))

calculateRunwayProjection(transactions, monthsToAverage) ==
    LET monthlyData == calculateMonthlyData(transactions)
        recentMonths == recentMonthsOf(monthlyData, monthsToAverage)
        n == Len(recentMonths)
        currentBalance == currentBalanceOf(monthlyData, recentMonths)
        sumExpenses == sumField(recentMonths, "expenses")
        sumIncome == sumField(recentMonths, "income")
    IN  [currentBalance |-> Num(round2(currentBalance)),
         averageMonthlyExpenses |-> roundedMean(sumExpenses, n),
         averageMonthlyIncome |-> roundedMean(sumIncome, n),
         averageMonthlyNet |-> roundedMean(sumIncome - sumExpenses, n),
         monthsOfRunway |-> runwayMonths(currentBalance, sumIncome, sumExpenses, n),
         requiredMonthlyContribution |->
             IF n # 0 /\ sumExpenses > sumIncome
             THEN Num(roundRatio(sumExpenses - sumIncome, n))
             ELSE Num(0)]

----------------------------------------------------------------------------
(* Source, recipient and category breakdowns *)

tally(m, key, amount) ==
    LET current == mapGet(m, key, [amount |-> 0, count |-> 0])
    IN  mapSet(m, key, [amount |-> current.amount + amount, count |-> current.count + 1])

\* .sort((a, b) => b.amount - a.amount)
sortByAmountDesc(rows) ==
    sort(rows, [j \in 1..Len(rows), i \in 1..Len(rows) |-> rows[i].amount - rows[j].amount])

toBreakdown(m) ==
    sortByAmountDesc([i \in 1..Len(m) |->
               [source |-> m[i].key, amount |-> round2(m[i].val.amount), count |-> m[i].val.count]])

incomeSourceStep(m, tx) ==
    IF isReversedOrReverse(tx) THEN m
    ELSE IF tx.CreditDebit # "CREDIT" THEN m
    ELSE tally(m, counterparty(tx), tx.Amount)

RECURSIVE incomeSourceLoop(_)
incomeSourceLoop(transactions) ==
    IF transactions = << >>
    THEN << >>
    ELSE incomeSourceStep(incomeSourceLoop(front(transactions)), last(transactions))

analyzeIncomeSources(transactions) == toBreakdown(incomeSourceLoop(transactions))

expenseStep(m, tx) ==
    IF isReversedOrReverse(tx) THEN m
    ELSE IF tx.CreditDebit # "DEBIT" THEN m
    ELSE tally(m, counterparty(tx), abs(tx.Amount))

RECURSIVE expenseLoop(_)
expenseLoop(transactions) ==
    IF transactions = << >>
    THEN << >>
    ELSE expenseStep(expenseLoop(front(transactions)), last(transactions))

analyzeExpenses(transactions) ==
    LET m == expenseLoop(transactions)
    IN  sortByAmountDesc([i \in 1..Len(m) |->
                   [recipient |-> m[i].key, amount |-> round2(m[i].val.amount),
                    count |-> m[i].val.count]])

Consultants == <<"Consultant", "s">>
CoreMaintainerStipend == <<"core ", "maintainer", " ", "stipend">>

rawCategory(tx) == OrElse(Coalesce(tx.AccountingCategoryName, tx.Kind), <<"Uncategorized">>)

\* the rules with the second tested ahead of the first
mapCategorySwapped(tx) ==
    LET category == rawCategory(tx)
        description == toLowerCase(tx.Description)
    IN  IF \/ startsWith(category, <<"Grants">>)
           \/ startsWith(category, <<"Other, Support & Commu">>)
           \/ includes(description, <<"community award">>)
        THEN <<"Community Incentives">>
        ELSE IF startsWith(category, Consultants) \/ includes(description, CoreMaintainerStipend)
        THEN <<"Paid Maintainers">>
        ELSE IF \/ category = <<"EXPENSE">>
                \/ category = <<"CONTRIBUTION">>
                \/ startsWith(category, <<"Expenses - Donation">>)
                \/ startsWith(category, <<"Expenses - Travel">>)
                \/ startsWith(category, <<"Contributions - Hosted">>)
        THEN <<"Miscellaneous">>
        ELSE category

\* the rules of the abridged module, src/lib/analysis.ts
mapCategory(tx) ==
    LET category == rawCategory(tx)
        description == toLowerCase(tx.Description)
    IN  IF startsWith(category, Consultants) \/ includes(description, CoreMaintainerStipend)
        THEN <<"Paid Maintainers">>
        ELSE IF \/ startsWith(category, <<"Grants">>)
                \/ startsWith(category, <<"Other, Support & Commu">>)
                \/ includes(description, <<"community award">>)
        THEN <<"Community Incentives">>
        ELSE IF \/ category = <<"EXPENSE">>
                \/ category = <<"CONTRIBUTION">>
                \/ startsWith(category, <<"Expenses - Donation">>)
                \/ startsWith(category, <<"Expenses - Travel">>)
                \/ startsWith(category, <<"Contributions - Hosted">>)
        THEN <<"Miscellaneous">>
        ELSE category

\* the rules of the full-featured module with the OC Fees rule tested first
mapCategoryFeesFirst(tx) ==
    IF rawCategory(tx) = <<"HOST_FEE">> THEN <<"OC Fees">> ELSE mapCategory(tx)

\* the rules of the full-featured module, with the OC Fees rule
mapCategoryFull(tx) ==
    LET category == rawCategory(tx)
        description == toLowerCase(tx.Description)
    IN  IF startsWith(category, Consultants) \/ includes(description, CoreMaintainerStipend)
        THEN <<"Paid Maintainers">>
        ELSE IF \/ startsWith(category, <<"Grants">>)
                \/ startsWith(category, <<"Other, Support & Commu">>)
                \/ includes(description, <<"community award">>)
        THEN <<"Community Incentives">>
        ELSE IF \/ category = <<"EXPENSE">>
                \/ category = <<"CONTRIBUTION">>
                \/ startsWith(category, <<"Expenses - Donation">>)
                \/ startsWith(category, <<"Expenses - Travel">>)
                \/ startsWith(category, <<"Contributions - Hosted">>)
        THEN <<"Miscellaneous">>
        ELSE IF category = <<"HOST_FEE">>
        THEN <<"OC Fees">>
        ELSE category

categoryStep(m, tx) ==
    IF isReversedOrReverse(tx) THEN m
    ELSE IF tx.CreditDebit # "DEBIT" THEN m
    ELSE tally(m, mapCategory(tx), abs(tx.Amount))

RECURSIVE categoryLoop(_)
categoryLoop(transactions) ==
    IF transactions = << >>
    THEN << >>
    ELSE categoryStep(categoryLoop(front(transactions)), last(transactions))

analyzeExpensesByCategory(transactions) == toBreakdown(categoryLoop(transactions))

categoryStepFull(m, tx) ==
    IF isReversedOrReverse(tx) THEN m
    ELSE IF tx.CreditDebit # "DEBIT" THEN m
    ELSE tally(m, mapCategoryFull(tx), abs(tx.Amount))

RECURSIVE categoryLoopFull(_)
categoryLoopFull(transactions) ==
    IF transactions = << >>
    THEN << >>
    ELSE categoryStepFull(categoryLoopFull(front(transactions)), last(transactions))

analyzeExpensesByCategoryFull(transactions) ==
    toBreakdown(categoryLoopFull(transactions))

----------------------------------------------------------------------------
(* Contributions *)

\* the recurring test on the description as written, not lower-cased
isRecurringContributionCaseSensitive(tx) == includes(tx.Description, <<"monthly contribution">>)

isRecurringContribution(tx) == includes(toLowerCase(tx.Description), <<"monthly contribution">>)

contributionStep(maps, tx) ==
    IF isReversedOrReverse(tx) THEN maps
    ELSE IF tx.CreditDebit # "CREDIT" THEN maps
    ELSE IF tx.Kind # <<"CONTRIBUTION">> THEN maps
    ELSE IF isRecurringContribution(tx)
    THEN [maps EXCEPT !.recurring = tally(@, counterparty(tx), tx.Amount)]
    ELSE [maps EXCEPT !.oneTime = tally(@, counterparty(tx), tx.Amount)]

RECURSIVE contributionLoop(_)
contributionLoop(transactions) ==
    IF transactions = << >>
    THEN [recurring |-> << >>, oneTime |-> << >>]
    ELSE contributionStep(contributionLoop(front(transactions)), last(transactions))

contributionSide(list) ==
    [amount |-> round2(sumField(list, "amount")),
     count |-> sumField(list, "count"),
     contributors |-> list]

analyzeContributions(transactions) ==
    LET maps == contributionLoop(transactions)
    IN  [recurring |-> contributionSide(toBreakdown(maps.recurring)),
         oneTime |-> contributionSide(toBreakdown(maps.oneTime))]

monthlyRecurringStep(m, tx) ==
    LET month == getYearMonth(tx.EffectiveDateTime)
        current == mapGet(m, month, [recurring |-> 0, oneTime |-> 0])
    IN  IF isReversedOrReverse(tx) THEN m
        ELSE IF tx.CreditDebit # "CREDIT" THEN m
        ELSE IF tx.Kind # <<"CONTRIBUTION">> THEN m
        ELSE IF isRecurringContribution(tx)
        THEN mapSet(m, month, [current EXCEPT !.recurring = @ + tx.Amount])
        ELSE mapSet(m, month, [current EXCEPT !.oneTime = @ + tx.Amount])

RECURSIVE monthlyRecurringLoop(_)
monthlyRecurringLoop(transactions) ==
    IF transactions = << >>
    THEN << >>
    ELSE monthlyRecurringStep(monthlyRecurringLoop(front(transactions)), last(transactions))

analyzeMonthlyRecurringContributions(transactions) ==
    LET m == monthlyRecurringLoop(transactions)
    IN  sortByMonth([i \in 1..Len(m) |->
                   [month |-> m[i].key,
                    recurring |-> round2(m[i].val.recurring),
                    oneTime |-> round2(m[i].val.oneTime)]])

----------------------------------------------------------------------------
(* Salaries *)

\* split("-").map(Number) of "NaN-NaN" is [NaN, NaN], and NaN spreads
monthsBetween(earliest, latest) ==
    IF earliest = NaNMonth \/ latest = NaNMonth THEN NaN
    ELSE Num((latest.y - earliest.y) * 12 + (latest.m - earliest.m) + 1)

salaryKeywords ==
    {<<"stipend">>, <<"salary">>, <<"maintainer">>, <<"contractor">>, <<"developer">>}

isSalaryLike(tx) ==
    LET descLower == toLowerCase(tx.Description)
        categoryLower == toLowerCase(OrElse(tx.AccountingCategoryName, << >>))
    IN  \/ \E kw \in salaryKeywords : includes(descLower, kw)
        \/ includes(categoryLower, <<"consultant">>)
        \/ includes(categoryLower, <<"maintenance">>)

salaryStep(m, tx) ==
    IF isReversedOrReverse(tx) THEN m
    ELSE IF tx.CreditDebit # "DEBIT" THEN m
    ELSE IF tx.Kind # <<"EXPENSE">> THEN m
    ELSE IF ~isSalaryLike(tx) THEN m
    ELSE LET recipient == counterparty(tx)
             month == getYearMonth(tx.EffectiveDateTime)
             current == mapGet(m, recipient,
                               [total |-> 0, paymentCount |-> 0, earliestMonth |-> month,
                                latestMonth |-> month, description |-> tx.Description])
         IN  mapSet(m, recipient,
                    [total |-> current.total + abs(tx.Amount),
                     paymentCount |-> current.paymentCount + 1,
                     earliestMonth |-> IF monthCompare(month, current.earliestMonth) < 0
                                       THEN month ELSE current.earliestMonth,
                     latestMonth |-> IF monthCompare(month, current.latestMonth) > 0
                                     THEN month ELSE current.latestMonth,
                     description |-> current.description])

RECURSIVE salaryLoop(_)
salaryLoop(transactions) ==
    IF transactions = << >>
    THEN << >>
    ELSE salaryStep(salaryLoop(front(transactions)), last(transactions))

salaryEntry(e) ==
    LET monthSpan == monthsBetween(e.val.earliestMonth, e.val.latestMonth) IN
    [recipient |-> e.key,
     totalPaid |-> round2(e.val.total),
     monthlyAverage |-> IF monthSpan = NaN THEN NaN
                        ELSE Num(roundRatio(e.val.total, monthSpan.v)),
     paymentCount |-> e.val.paymentCount,
     firstPayment |-> e.val.earliestMonth,
     lastPayment |-> e.val.latestMonth,
     description |-> e.val.description]

analyzeSalariedExpenses(transactions) ==
    LET m == salaryLoop(transactions)
        rows == [i \in 1..Len(m) |-> salaryEntry(m[i])]
    IN  sort(rows, [j \in 1..Len(rows), i \in 1..Len(rows) |->
                       rows[i].totalPaid - rows[j].totalPaid])

TrailingMonths == 6

\* reduce((sum, s) => sum + s[f], 0) over numbers that may be NaN
RECURSIVE sumNumbers(_, _)
sumNumbers(rows, f) ==
    IF rows = << >> THEN Num(0)
    ELSE LET sum == sumNumbers(front(rows), f)
         IN  IF sum = NaN \/ last(rows)[f] = NaN THEN NaN ELSE Num(sum.v + last(rows)[f].v)

\* Math.round(((salary / (sum / n)) * 100) * 10) / 10 in tenths of a percent when
\* sum / n > 0, else 0 (NaN > 0 is false)
roundedPercentage(salary, sum, n) ==
    IF n # 0 /\ sum > 0
    THEN (IF salary = NaN THEN NaN ELSE Num((2000 * salary.v * n + sum) \div (2 * sum)))
    ELSE Num(0)

\* the salary view that keeps one-off payees
recurringSalariesUnfiltered(salaries) == salaries

\* salaries.filter((s) => s.paymentCount > 1)
recurringSalariesOf(salaries) ==
    filter(salaries, {i \in 1..Len(salaries) : salaries[i].paymentCount > 1})

calculateSalaryPercentageOfIncome(transactions) ==
    LET salaries == analyzeSalariedExpenses(transactions)
        monthlyData == calculateMonthlyData(transactions)
        monthlyContributions == analyzeMonthlyRecurringContributions(transactions)
        recentMonths == sliceFrom(monthlyData, -TrailingMonths)
        recentContributions == sliceFrom(monthlyContributions, -TrailingMonths)
        sumIncome == sumField(recentMonths, "income")
        sumRecurring == sumField(recentContributions, "recurring")
        recurringSalaries == recurringSalariesOf(salaries)
        monthlySalaryExpenses == sumNumbers(recurringSalaries, "monthlyAverage")
    IN  [monthlySalaryExpenses |-> IF monthlySalaryExpenses = NaN THEN NaN
                                   ELSE Num(round2(monthlySalaryExpenses.v)),
         avgMonthlyIncome |-> roundedMean(sumIncome, Len(recentMonths)),
         avgMonthlyRecurringIncome |-> roundedMean(sumRecurring, Len(recentContributions)),
         percentageOfTotalIncome |->
             roundedPercentage(monthlySalaryExpenses, sumIncome, Len(recentMonths)),
         percentageOfRecurringIncome |->
             roundedPercentage(monthlySalaryExpenses, sumRecurring, Len(recentContributions))]

----------------------------------------------------------------------------
(* Top-N and largest-N selectors *)

getTopContributors(transactions, limit) == sliceTo(analyzeIncomeSources(transactions), limit)

getTopExpenses(transactions, limit) == sliceTo(analyzeExpenses(transactions), limit)

singleContribution(tx) ==
    [date |-> tx.EffectiveDateTime,
     source |-> counterparty(tx),
     amount |-> tx.Amount,
     description |-> tx.Description,
     isRecurring |-> isRecurringContribution(tx)]

singleContributionStep(contributions, tx) ==
    IF isReversedOrReverse(tx) THEN contributions
    ELSE IF tx.CreditDebit # "CREDIT" THEN contributions
    ELSE Append(contributions, singleContribution(tx))

RECURSIVE singleContributionLoop(_)
singleContributionLoop(transactions) ==
    IF transactions = << >>
    THEN << >>
    ELSE singleContributionStep(singleContributionLoop(front(transactions)), last(transactions))

getLargestSingleContributions(transactions, limit) ==
    sliceTo(sortByAmountDesc(singleContributionLoop(transactions)), limit)

IntermediateLimit == 1000

\* the one-time view filtered after the slice to limit
getLargestOneTimeFilteredLast(transactions, limit) ==
    LET largest == getLargestSingleContributions(transactions, limit)
    IN  filter(largest, {i \in 1..Len(largest) : ~largest[i].isRecurring})

\* getLargestSingleContributions(transactions, cap).filter(...).slice(0, limit)
largestOneTimeVia(transactions, cap, limit) ==
    LET largest == getLargestSingleContributions(transactions, cap)
    IN  sliceTo(filter(largest, {i \in 1..Len(largest) : ~largest[i].isRecurring}), limit)

getLargestOneTimeContributions(transactions, limit) ==
    largestOneTimeVia(transactions, IntermediateLimit, limit)

----------------------------------------------------------------------------
(* Income classification (full-featured module only) *)

\* the GitHub Sponsors test without its test of the kind
isGithubSponsorsAnyKind(tx, source) == includes(toLowerCase(source), <<"github">>)

isGithubSponsors(tx, source) ==
    tx.Kind = <<"ADDED_FUNDS">> /\ includes(toLowerCase(source), <<"github">>)

sourceOrEmpty(tx) == OrElse(OrElse(tx.OppositeAccountName, tx.OppositeAccountHandle), << >>)

bump(bucket, amount) == [amount |-> bucket.amount + amount, count |-> bucket.count + 1]

categorizeIncomeStep(r, tx) ==
    IF isReversedOrReverse(tx) THEN r
    ELSE IF tx.CreditDebit # "CREDIT" THEN r
    ELSE LET amount == tx.Amount
             bucketed ==
                 IF isGithubSponsors(tx, sourceOrEmpty(tx))
                 THEN [r EXCEPT !.githubSponsors = bump(@, amount)]
                 ELSE IF tx.Kind = <<"CONTRIBUTION">>
                 THEN (IF isRecurringContribution(tx)
                       THEN [r EXCEPT !.ocRecurring = bump(@, amount)]
                       ELSE [r EXCEPT !.ocOneTime = bump(@, amount)])
                 ELSE [r EXCEPT !.other = bump(@, amount)]
         IN  [bucketed EXCEPT !.total = @ + amount]

RECURSIVE categorizeIncomeLoop(_)
categorizeIncomeLoop(transactions) ==
    IF transactions = << >>
    THEN [githubSponsors |-> [amount |-> 0, count |-> 0],
          ocRecurring |-> [amount |-> 0, count |-> 0],
          ocOneTime |-> [amount |-> 0, count |-> 0],
          other |-> [amount |-> 0, count |-> 0],
          total |-> 0]
    ELSE categorizeIncomeStep(categorizeIncomeLoop(front(transactions)), last(transactions))

categorizeIncome(transactions) ==
    LET r == categorizeIncomeLoop(transactions)
    IN  [githubSponsors |-> [r.githubSponsors EXCEPT !.amount = round2(@)],
         ocRecurring |-> [r.ocRecurring EXCEPT !.amount = round2(@)],
         ocOneTime |-> [r.ocOneTime EXCEPT !.amount = round2(@)],
         other |-> [r.other EXCEPT !.amount = round2(@)],
         total |-> round2(r.total)]

categorizeMonthlyIncomeStep(m, tx) ==
    IF isReversedOrReverse(tx) THEN m
    ELSE IF tx.CreditDebit # "CREDIT" THEN m
    ELSE LET month == getYearMonth(tx.EffectiveDateTime)
             amount == tx.Amount
             source == counterparty(tx)
             current == mapGet(m, month,
                               [githubSponsors |-> 0, ocRecurring |-> 0, ocOneTime |-> 0,
                                other |-> 0, recurringContribs |-> << >>,
                                oneTimeContribs |-> << >>])
         IN  mapSet(m, month,
                 IF isGithubSponsors(tx, source)
                 THEN [current EXCEPT !.githubSponsors = @ + amount]
                 ELSE IF tx.Kind = <<"CONTRIBUTION">>
                 THEN (IF isRecurringContribution(tx)
                       THEN [current EXCEPT
                                !.ocRecurring = @ + amount,
                                !.recurringContribs = mapSet(@, source, mapGet(@, source, 0) + amount)]
                       ELSE [current EXCEPT
                                !.ocOneTime = @ + amount,
                                !.oneTimeContribs = mapSet(@, source, mapGet(@, source, 0) + amount)])
                 ELSE [current EXCEPT !.other = @ + amount])

RECURSIVE categorizeMonthlyIncomeLoop(_)
categorizeMonthlyIncomeLoop(transactions) ==
    IF transactions = << >>
    THEN << >>
    ELSE categorizeMonthlyIncomeStep(categorizeMonthlyIncomeLoop(front(transactions)), last(transactions))

TopPerMonth == 3

monthTopContributors(contribs) ==
    sliceTo(sortByAmountDesc([i \in 1..Len(contribs) |->
                       [name |-> contribs[i].key, amount |-> round2(contribs[i].val)]]),
            TopPerMonth)

categorizeMonthlyIncome(transactions) ==
    LET m == categorizeMonthlyIncomeLoop(transactions)
    IN  sortByMonth([i \in 1..Len(m) |->
                   [month |-> m[i].key,
                    githubSponsors |-> round2(m[i].val.githubSponsors),
                    ocRecurring |-> round2(m[i].val.ocRecurring),
                    ocOneTime |-> round2(m[i].val.ocOneTime),
                    other |-> round2(m[i].val.other),
                    topRecurring |-> monthTopContributors(m[i].val.recurringContribs),
                    topOneTime |-> monthTopContributors(m[i].val.oneTimeContribs)]])

\* key.split("::")[0]
beforeSeparator(key) ==
    IF \E i \in 1..Len(key) : key[i] = "::"
    THEN SubSeq(key, 1, (CHOOSE i \in 1..Len(key) :
                            key[i] = "::" /\ \A j \in 1..(i - 1) : key[j] # "::") - 1)
    ELSE key

otherIncomeStep(m, tx) ==
    IF isReversedOrReverse(tx) THEN m
    ELSE IF tx.CreditDebit # "CREDIT" THEN m
    ELSE LET kind == tx.Kind
             source == sourceOrEmpty(tx)
             key == kind \o <<"::">> \o source
             current == mapGet(m, key, [amount |-> 0, count |-> 0, source |-> source])
         IN  IF isGithubSponsors(tx, source) THEN m
             ELSE IF kind = <<"CONTRIBUTION">> THEN m
             ELSE mapSet(m, key, [amount |-> current.amount + tx.Amount,
                                  count |-> current.count + 1,
                                  source |-> current.source])

RECURSIVE otherIncomeLoop(_)
otherIncomeLoop(transactions) ==
    IF transactions = << >>
    THEN << >>
    ELSE otherIncomeStep(otherIncomeLoop(front(transactions)), last(transactions))

analyzeOtherIncome(transactions) ==
    LET m == otherIncomeLoop(transactions)
    IN  sortByAmountDesc([i \in 1..Len(m) |->
                   [kind |-> beforeSeparator(m[i].key),
                    source |-> m[i].val.source,
                    amount |-> round2(m[i].val.amount),
                    count |-> m[i].val.count]])

----------------------------------------------------------------------------
(* Inputs: rows as the loader hands them over (src/content config schema) *)

NoId == [type |-> "null", str |-> << >>, num |-> 0]
StringId(s) == [type |-> "string", str |-> s, num |-> 0]
NumberId(n) == [type |-> "number", str |-> << >>, num |-> n]

Tx(year, month, desc, cd, kind, amount) ==
    [EffectiveDateTime |-> [year |-> year, month |-> month, day |-> 15],
     Description |-> desc,
     CreditDebit |-> cd,
     Kind |-> kind,
     Amount |-> amount,
     IsReverse |-> Null,
     IsReversed |-> Null,
     ReverseTransactionID |-> NoId,
     OppositeAccountHandle |-> <<"acme">>,
     OppositeAccountName |-> <<"Acme">>,
     AccountingCategoryName |-> Null]

\* credits and debits over three months, in whole cents and not, and a reversed row
RunwayPool ==
    {Tx(2023, 12, <<"payment">>, "CREDIT", <<"CONTRIBUTION">>, 200),
     Tx(2024, 1, <<"payment">>, "CREDIT", <<"CONTRIBUTION">>, 25),
     Tx(2024, 1, <<"payment">>, "CREDIT", <<"CONTRIBUTION">>, 200),
     Tx(2024, 2, <<"payment">>, "CREDIT", <<"CONTRIBUTION">>, 200),
     Tx(2023, 12, <<"payment">>, "DEBIT", <<"EXPENSE">>, -400),
     Tx(2024, 1, <<"payment">>, "DEBIT", <<"EXPENSE">>, -25),
     Tx(2024, 2, <<"payment">>, "DEBIT", <<"EXPENSE">>, -25),
     Tx(2024, 2, <<"payment">>, "DEBIT", <<"EXPENSE">>, -400),
     [Tx(2024, 1, <<"refund">>, "CREDIT", <<"CONTRIBUTION">>, 1000)
         EXCEPT !.IsReversed = <<"true">>]}

\* months whose income and expenses lie within a cent or two of each other, a
\* month far in deficit, a month in surplus, and a reversed row
MarginPool ==
    {Tx(2023, 12, <<"payment">>, "CREDIT", <<"CONTRIBUTION">>, 200),
     Tx(2023, 12, <<"payment">>, "DEBIT", <<"EXPENSE">>, -400),
     Tx(2024, 1, <<"payment">>, "CREDIT", <<"CONTRIBUTION">>, 2),
     Tx(2024, 1, <<"payment">>, "DEBIT", <<"EXPENSE">>, -2),
     Tx(2024, 2, <<"payment">>, "CREDIT", <<"CONTRIBUTION">>, 2),
     Tx(2024, 2, <<"payment">>, "DEBIT", <<"EXPENSE">>, -3),
     Tx(2024, 3, <<"payment">>, "CREDIT", <<"CONTRIBUTION">>, 4),
     Tx(2024, 3, <<"payment">>, "DEBIT", <<"EXPENSE">>, -2),
     [Tx(2024, 1, <<"refund">>, "CREDIT", <<"CONTRIBUTION">>, 1000)
         EXCEPT !.IsReversed = <<"true">>]}

\* the ways a row carries its reversal markers
Markings ==
    {[IsReverse |-> Null, IsReversed |-> Null, ReverseTransactionID |-> NoId],
     [IsReverse |-> <<"true">>, IsReversed |-> Null, ReverseTransactionID |-> NoId],
     [IsReverse |-> Null, IsReversed |-> <<"true">>, ReverseTransactionID |-> NoId],
     [IsReverse |-> Null, IsReversed |-> Null, ReverseTransactionID |-> StringId(<<"r1">>)],
     [IsReverse |-> Null, IsReversed |-> Null, ReverseTransactionID |-> NumberId(7)],
     [IsReverse |-> Null, IsReversed |-> Null, ReverseTransactionID |-> NumberId(0)],
     [IsReverse |-> <<"false">>, IsReversed |-> << >>, ReverseTransactionID |-> StringId(<< >>)]}

Marked(tx, mk) ==
    [tx EXCEPT !.IsReverse = mk.IsReverse, !.IsReversed = mk.IsReversed,
               !.ReverseTransactionID = mk.ReverseTransactionID]

LedgerRows ==
    {Tx(2024, 1, <<"Monthly Contribution", " from Acme">>, "CREDIT", <<"CONTRIBUTION">>, 225),
     [Tx(2024, 2, <<"Stipend", " payment">>, "DEBIT", <<"EXPENSE">>, -425)
         EXCEPT !.AccountingCategoryName = Consultants,
                !.OppositeAccountName = << >>],
     [Tx(2024, 2, <<"bank interest">>, "CREDIT", <<"ADDED_FUNDS">>, 75)
         EXCEPT !.OppositeAccountName = <<"Bank">>]}

LedgerPool == {Marked(tx, mk) : tx \in LedgerRows, mk \in Markings}

\* debits of every category shape and description, a credit and a reversed debit
CategoryNames ==
    {Null, << >>, Consultants \o <<" & Contractors">>, <<"Grants">>,
     <<"Other, Support & Commu", "nity">>, <<"EXPENSE">>, <<"EXPENSE", "S">>,
     <<"Expenses - Travel", " & Lodging">>, <<"HOST_FEE">>, <<"OC Fees">>, <<"Software">>}

Descriptions ==
    {<<"invoice">>,
     <<"Core ", "Maintainer", " ", "Stipend", " for January">>,
     <<"Community Award", " 2024">>}

CategoryPool ==
    {[Tx(2024, 1, d, "DEBIT", <<"EXPENSE">>, -425) EXCEPT !.AccountingCategoryName = c] :
        c \in CategoryNames, d \in Descriptions}
    \cup {Tx(2024, 1, <<"invoice">>, "DEBIT", k, -200) :
        k \in {<<"HOST_FEE">>, <<"CONTRIBUTION">>, <<"Contributions - Hosted", " Collective">>}}
    \cup {Tx(2024, 1, <<"Community Award", " 2024">>, "CREDIT", <<"CONTRIBUTION">>, 200),
          [Tx(2024, 1, <<"invoice">>, "DEBIT", <<"EXPENSE">>, -1000)
              EXCEPT !.AccountingCategoryName = <<"Grants">>, !.IsReverse = <<"true">>]}

\* credits of distinct and of equal amounts, recurring and not, a debit and a
\* reversed credit
ContributionPool ==
    {Tx(2024, 1, <<"Donation">>, "CREDIT", <<"CONTRIBUTION">>, 1000),
     Tx(2024, 1, <<"Monthly Contribution", " from Acme">>, "CREDIT", <<"CONTRIBUTION">>, 2000),
     Tx(2024, 2, <<"monthly contribution">>, "CREDIT", <<"CONTRIBUTION">>, 600),
     Tx(2024, 2, <<"Donation">>, "CREDIT", <<"ADDED_FUNDS">>, 600),
     Tx(2024, 2, <<"Tip">>, "CREDIT", <<"CONTRIBUTION">>, 75),
     Tx(2024, 2, <<"Monthly Contribution", " from Acme">>, "CREDIT", <<"CONTRIBUTION">>, 1200),
     Tx(2024, 2, <<"invoice">>, "DEBIT", <<"EXPENSE">>, -5000),
     [Tx(2024, 2, <<"Donation">>, "CREDIT", <<"CONTRIBUTION">>, 9000)
         EXCEPT !.ReverseTransactionID = StringId(<<"r1">>)]}

\* rows whose timestamp is no date, counted and excluded, among rows of two months
DatePool ==
    {Tx(2024, 1, <<"Monthly Contribution", " from Acme">>, "CREDIT", <<"CONTRIBUTION">>, 200),
     Tx(2024, 3, <<"Stipend", " payment">>, "DEBIT", <<"EXPENSE">>, -400),
     Tx(2024, 1, <<"Salary">>, "DEBIT", <<"EXPENSE">>, -225),
     [Tx(2024, 1, <<"Donation">>, "CREDIT", <<"CONTRIBUTION">>, 600)
         EXCEPT !.EffectiveDateTime = InvalidDate],
     [Tx(2024, 1, <<"Stipend", " payment">>, "DEBIT", <<"EXPENSE">>, -1000)
         EXCEPT !.EffectiveDateTime = InvalidDate],
     [Tx(2024, 1, <<"refund">>, "CREDIT", <<"CONTRIBUTION">>, 9000)
         EXCEPT !.EffectiveDateTime = InvalidDate, !.IsReverse = <<"true">>]}

\* the ways a row names its counterparty: by name, by handle only, not at all
Counterparties ==
    {[OppositeAccountName |-> <<"Acme">>, OppositeAccountHandle |-> <<"acme">>],
     [OppositeAccountName |-> << >>, OppositeAccountHandle |-> <<"acme">>],
     [OppositeAccountName |-> << >>, OppositeAccountHandle |-> << >>]}

\* a contribution, another income and a salary from or to each counterparty
CounterpartyPool ==
    {[tx EXCEPT !.OppositeAccountName = c.OppositeAccountName,
                !.OppositeAccountHandle = c.OppositeAccountHandle] :
        tx \in {Tx(2024, 1, <<"Monthly Contribution">>, "CREDIT", <<"CONTRIBUTION">>, 200),
                Tx(2024, 1, <<"bank interest">>, "CREDIT", <<"ADDED_FUNDS">>, 75),
                Tx(2024, 2, <<"Salary">>, "DEBIT", <<"EXPENSE">>, -400)},
        c \in Counterparties}

\* income of every kind and origin: GitHub Sponsors by name, by handle only and
\* by a handle behind another name, contributions recurring and not, other
\* funds, a debit and a reversed credit
IncomePool ==
    {[Tx(2024, 1, <<"sponsorship">>, "CREDIT", <<"ADDED_FUNDS">>, 1000)
         EXCEPT !.OppositeAccountName = <<"GitHub", " Sponsors">>,
                !.OppositeAccountHandle = <<"github", "-sponsors">>],
     [Tx(2024, 1, <<"sponsorship">>, "CREDIT", <<"ADDED_FUNDS">>, 225)
         EXCEPT !.OppositeAccountName = << >>,
                !.OppositeAccountHandle = <<"github", "-sponsors">>],
     [Tx(2024, 1, <<"sponsorship">>, "CREDIT", <<"ADDED_FUNDS">>, 400)
         EXCEPT !.OppositeAccountHandle = <<"github", "-sponsors">>],
     [Tx(2024, 2, <<"Monthly Contribution", " from GitHub">>, "CREDIT", <<"CONTRIBUTION">>, 600)
         EXCEPT !.OppositeAccountName = <<"GitHub">>],
     Tx(2024, 2, <<"Monthly Contribution", " from Acme">>, "CREDIT", <<"CONTRIBUTION">>, 200),
     Tx(2024, 2, <<"Donation">>, "CREDIT", <<"CONTRIBUTION">>, 75),
     Tx(2024, 2, <<"bank interest">>, "CREDIT", <<"ADDED_FUNDS">>, 25),
     Tx(2024, 2, <<"invoice">>, "DEBIT", <<"EXPENSE">>, -400),
     [Tx(2024, 2, <<"Donation">>, "CREDIT", <<"CONTRIBUTION">>, 9000)
         EXCEPT !.IsReverse = <<"true">>]}

\* credits and debits of equal and of distinct amounts from and to two
\* counterparties, over three months given out of order, a row whose timestamp
\* is no date and a reversed one
OrderPool ==
    {Tx(2024, 2, <<"Monthly Contribution">>, "CREDIT", <<"CONTRIBUTION">>, 200),
     [Tx(2024, 1, <<"Monthly Contribution">>, "CREDIT", <<"CONTRIBUTION">>, 200)
         EXCEPT !.OppositeAccountName = <<"Bob">>],
     [Tx(2023, 12, <<"Donation">>, "CREDIT", <<"CONTRIBUTION">>, 600)
         EXCEPT !.OppositeAccountName = <<"Bob">>],
     [Tx(2024, 2, <<"Salary">>, "DEBIT", <<"EXPENSE">>, -400)
         EXCEPT !.AccountingCategoryName = Consultants],
     [Tx(2024, 1, <<"Stipend">>, "DEBIT", <<"EXPENSE">>, -400)
         EXCEPT !.AccountingCategoryName = <<"Grants">>, !.OppositeAccountName = <<"Bob">>],
     [Tx(2023, 12, <<"Salary">>, "DEBIT", <<"EXPENSE">>, -1000)
         EXCEPT !.OppositeAccountName = <<"Bob">>],
     [Tx(2024, 1, <<"Monthly Contribution">>, "CREDIT", <<"CONTRIBUTION">>, 200)
         EXCEPT !.EffectiveDateTime = InvalidDate],
     [Tx(2024, 1, <<"refund">>, "CREDIT", <<"CONTRIBUTION">>, 9000)
         EXCEPT !.OppositeAccountName = <<"Bob">>, !.IsReversed = <<"true">>]}

----------------------------------------------------------------------------
(* The state machine: a list is loaded row by row, then reports are computed *)

Init ==
    /\ txs = << >>
    /\ arg = 0
    /\ called = "none"
    /\ result = << >>

Load(pool, max) ==
    /\ called = "none"
    /\ Len(txs) < max
    /\ \E tx \in pool : txs' = Append(txs, tx)
    /\ UNCHANGED <<arg, called, result>>

\* The functions are pure and share no state, so a run applies one of them to
\* the loaded list; a second call would return what a first call returns.
Return(name, a, value) ==
    /\ called = "none"
    /\ called' = name
    /\ arg' = a
    /\ result' = value
    /\ UNCHANGED txs

DefaultMonthsToAverage == 6
DefaultLimit == 10

CallCalculateMonthlyData ==
    Return("calculateMonthlyData", 0, calculateMonthlyData(txs))

CallAnalyzeIncomeSources ==
    Return("analyzeIncomeSources", 0, analyzeIncomeSources(txs))

CallAnalyzeExpenses ==
    Return("analyzeExpenses", 0, analyzeExpenses(txs))

CallAnalyzeExpensesByCategory ==
    Return("analyzeExpensesByCategory", 0, analyzeExpensesByCategory(txs))

CallAnalyzeExpensesByCategoryFull ==
    Return("analyzeExpensesByCategoryFull", 0, analyzeExpensesByCategoryFull(txs))

CallAnalyzeContributions ==
    Return("analyzeContributions", 0, analyzeContributions(txs))

CallAnalyzeMonthlyRecurringContributions ==
    Return("analyzeMonthlyRecurringContributions", 0, analyzeMonthlyRecurringContributions(txs))

CallAnalyzeSalariedExpenses ==
    Return("analyzeSalariedExpenses", 0, analyzeSalariedExpenses(txs))

CallCalculateRunwayProjection ==
    \E k \in (0..MaxArg) \cup {DefaultMonthsToAverage} :
        Return("calculateRunwayProjection", k, calculateRunwayProjection(txs, k))

CallCalculateSalaryPercentageOfIncome ==
    Return("calculateSalaryPercentageOfIncome", 0, calculateSalaryPercentageOfIncome(txs))

CallGetTopContributors ==
    \E n \in (0..MaxArg) \cup {DefaultLimit} :
        Return("getTopContributors", n, getTopContributors(txs, n))

CallGetTopExpenses ==
    \E n \in (0..MaxArg) \cup {DefaultLimit} :
        Return("getTopExpenses", n, getTopExpenses(txs, n))

CallGetLargestSingleContributions ==
    \E n \in (0..MaxArg) \cup {DefaultLimit} :
        Return("getLargestSingleContributions", n, getLargestSingleContributions(txs, n))

CallGetLargestOneTimeContributions ==
    \E n \in (0..MaxArg) \cup {DefaultLimit} :
        Return("getLargestOneTimeContributions", n, getLargestOneTimeContributions(txs, n))

CallCategorizeIncome ==
    Return("categorizeIncome", 0, categorizeIncome(txs))

CallCategorizeMonthlyIncome ==
    Return("categorizeMonthlyIncome", 0, categorizeMonthlyIncome(txs))

CallAnalyzeOtherIncome ==
    Return("analyzeOtherIncome", 0, analyzeOtherIncome(txs))

\* every report function over a ledger whose rows carry every kind of marking
LoadLedgerTx == Load(LedgerPool, MaxTxLedger)

Next ==
    \/ LoadLedgerTx
    \/ CallCalculateMonthlyData
    \/ CallAnalyzeIncomeSources
    \/ CallAnalyzeExpenses
    \/ CallAnalyzeExpensesByCategory
    \/ CallAnalyzeExpensesByCategoryFull
    \/ CallAnalyzeContributions
    \/ CallAnalyzeMonthlyRecurringContributions
    \/ CallAnalyzeSalariedExpenses
    \/ CallCalculateRunwayProjection
    \/ CallCalculateSalaryPercentageOfIncome
    \/ CallGetTopContributors
    \/ CallGetTopExpenses
    \/ CallGetLargestSingleContributions
    \/ CallGetLargestOneTimeContributions
    \/ CallCategorizeIncome
    \/ CallCategorizeMonthlyIncome
    \/ CallAnalyzeOtherIncome

Spec == Init /\ [][Next]_vars

\* the monthly summary and the derived metrics over several months of history
LoadRunwayTx == Load(RunwayPool, MaxTx)

NextRunway ==
    \/ LoadRunwayTx
    \/ CallCalculateMonthlyData
    \/ CallCalculateRunwayProjection
    \/ CallCalculateSalaryPercentageOfIncome

SpecRunway == Init /\ [][NextRunway]_vars

\* the expense categories over debits of every category shape
LoadCategoryTx == Load(CategoryPool, MaxTxCategory)

NextCategory ==
    \/ LoadCategoryTx
    \/ CallAnalyzeExpensesByCategory
    \/ CallAnalyzeExpensesByCategoryFull

SpecCategory == Init /\ [][NextCategory]_vars

\* the largest-N selectors over contributions
LoadContributionTx == Load(ContributionPool, MaxTx)

NextLargest ==
    \/ LoadContributionTx
    \/ CallGetLargestSingleContributions
    \/ CallGetLargestOneTimeContributions

SpecLargest == Init /\ [][NextLargest]_vars

\* the month-grouping reports and the salary share over salaries and income of
\* several months, with rows whose timestamp may be no date
LoadDatedTx == Load(DatePool, MaxTx)

NextDates ==
    \/ LoadDatedTx
    \/ CallCalculateMonthlyData
    \/ CallAnalyzeMonthlyRecurringContributions
    \/ CallAnalyzeSalariedExpenses
    \/ CallCategorizeMonthlyIncome
    \/ CallCalculateSalaryPercentageOfIncome

SpecDates == Init /\ [][NextDates]_vars

\* the reports that label a counterparty, over rows that name it or not
LoadCounterpartyTx == Load(CounterpartyPool, MaxTx)

NextCounterparty ==
    \/ LoadCounterpartyTx
    \/ CallAnalyzeIncomeSources
    \/ CallAnalyzeExpenses
    \/ CallAnalyzeContributions
    \/ CallAnalyzeSalariedExpenses
    \/ CallGetLargestSingleContributions
    \/ CallCategorizeMonthlyIncome
    \/ CallAnalyzeOtherIncome

SpecCounterparty == Init /\ [][NextCounterparty]_vars

\* the income reports over income of every kind and origin
LoadIncomeTx == Load(IncomePool, MaxTx)

NextIncome ==
    \/ LoadIncomeTx
    \/ CallCategorizeIncome
    \/ CallAnalyzeContributions
    \/ CallAnalyzeOtherIncome

SpecIncome == Init /\ [][NextIncome]_vars

\* the sorted reports over rows of equal amounts and of months out of order
LoadOrderTx == Load(OrderPool, MaxTx)

NextOrder ==
    \/ LoadOrderTx
    \/ CallCalculateMonthlyData
    \/ CallAnalyzeMonthlyRecurringContributions
    \/ CallAnalyzeIncomeSources
    \/ CallAnalyzeExpenses
    \/ CallAnalyzeExpensesByCategory
    \/ CallAnalyzeExpensesByCategoryFull
    \/ CallAnalyzeSalariedExpenses
    \/ CallGetLargestSingleContributions

SpecOrder == Init /\ [][NextOrder]_vars

\* the runway projection over months of thin margin
LoadMarginTx == Load(MarginPool, MaxTx)

NextMargin ==
    \/ LoadMarginTx
    \/ CallCalculateRunwayProjection

SpecMargin == Init /\ [][NextMargin]_vars

----------------------------------------------------------------------------
(* Vocabulary of the properties *)

\* the sum of w[i] over i in S
RECURSIVE SumOver(_, _)
SumOver(S, w) ==
    IF S = {} THEN 0
    ELSE LET first == CHOOSE j \in S : TRUE
         IN  w[first] + SumOver(S \ {first}, w)

Kept == {i \in 1..Len(txs) : ~isReversedOrReverse(txs[i])}

InMonth(month) == {i \in Kept : getYearMonth(txs[i].EffectiveDateTime) = month}

ExactIncome(month) ==
    SumOver({i \in InMonth(month) : txs[i].CreditDebit = "CREDIT"},
            [i \in 1..Len(txs) |-> txs[i].Amount])

ExactExpenses(month) ==
    SumOver({i \in InMonth(month) : txs[i].CreditDebit = "DEBIT"},
            [i \in 1..Len(txs) |-> abs(txs[i].Amount)])

Summary == calculateMonthlyData(txs)

Total(rows, f) == SumOver(1..Len(rows), [i \in 1..Len(rows) |-> rows[i][f]])

Min(a, b) == IF a < b THEN a ELSE b

\* the n last rows
LastRows(rows, n) == SubSeq(rows, Len(rows) - n + 1, Len(rows))

\* r is num / den half cents rounded to whole cents, a tie going toward +Infinity
NearestCentTiesUp(r, num, den) ==
    r % 2 = 0 /\ (r - 1) * den <= num /\ num < (r + 1) * den

\* r is num / den half cents rounded to whole cents, a tie going away from zero
NearestCentTiesAway(r, num, den) ==
    /\ r % 2 = 0
    /\ abs(r * den - num) <= den
    /\ abs(r * den - num) = den => abs(r) * den > abs(num)

IsRunway == called = "calculateRunwayProjection"

----------------------------------------------------------------------------
(* C2 *)

\* C2: in every bucket calculateMonthlyData returns, the emitted net is the
\* emitted income minus the emitted expenses, whatever the amounts.
C2_NetIsIncomeMinusExpenses ==
    called = "calculateMonthlyData" =>
        \A i \in 1..Len(result) : result[i].net = result[i].income - result[i].expenses

----------------------------------------------------------------------------
(* C3 *)

\* C3: calculateRunwayProjection(T, k).currentBalance is the sum of the net of
\* every bucket of calculateMonthlyData(T), for every k.
C3_BalanceIsSumOfAllNets ==
    IsRunway => result.currentBalance = Num(Total(Summary, "net"))

\* a call whose window is shorter than the history and whose balance is not the
\* window's
C3_Witness ==
    /\ IsRunway
    /\ 0 < arg /\ arg < Len(Summary)
    /\ result.currentBalance.v # Total(LastRows(Summary, arg), "net")

----------------------------------------------------------------------------
(* C5 *)

\* r is num / den rounded to the nearest cent, ties going up or away from zero
Nearest(ties, r, num, den) ==
    IF ties = "up" THEN NearestCentTiesUp(r, num, den) ELSE NearestCentTiesAway(r, num, den)

MonthlyRounding(ties) ==
    called = "calculateMonthlyData" =>
        \A i \in 1..Len(result) :
            LET month == result[i].month IN
            /\ Nearest(ties, result[i].income, ExactIncome(month), 1)
            /\ Nearest(ties, result[i].expenses, ExactExpenses(month), 1)
            /\ Nearest(ties, result[i].net, ExactIncome(month) - ExactExpenses(month), 1)

RunwayRounding(ties) ==
    IsRunway /\ Summary # << >> =>
        LET window == recentMonthsOf(Summary, arg)
            n == Len(window)
            income == Total(window, "income")
            expenses == Total(window, "expenses")
        IN  /\ Nearest(ties, result.averageMonthlyIncome.v, income, n)
            /\ Nearest(ties, result.averageMonthlyExpenses.v, expenses, n)
            /\ Nearest(ties, result.averageMonthlyNet.v, income - expenses, n)
            /\ Nearest(ties, result.currentBalance.v, Total(Summary, "net"), 1)

\* C5 as stated: every rounded value is the exact accumulated value rounded to
\* the nearest cent, a value exactly half a cent between two cents rounded away
\* from zero, for negative values as for positive ones.
C5_RoundsHalfAwayFromZero ==
    MonthlyRounding("away") /\ RunwayRounding("away")

\* C5 amended: every rounded value is the exact accumulated value rounded to the
\* nearest cent, a value exactly half a cent between two cents rounded toward
\* +Infinity (up), which is away from zero only for positive values.
C5_RoundsHalfUp ==
    MonthlyRounding("up") /\ RunwayRounding("up")

\* a bucket whose exact net is negative and exactly half a cent between two cents
C5_Witness ==
    /\ called = "calculateMonthlyData"
    /\ \E i \in 1..Len(result) :
          LET exact == ExactIncome(result[i].month) - ExactExpenses(result[i].month)
          IN  exact < 0 /\ exact % 2 = 1 /\ result[i].net = exact + 1

----------------------------------------------------------------------------
(* C8 *)

\* C8: with at least one month of history, monthsOfRunway is +Infinity when the
\* window's average net (average income minus average expenses) is >= 0, and
\* otherwise floor(currentBalance / |average net|); with a negative balance that
\* is a non-positive integer, not clamped to zero.
C8_RunwayMonths ==
    IsRunway /\ Summary # << >> =>
        LET window == recentMonthsOf(Summary, arg)
            n == Len(window)
            net == Total(window, "income") - Total(window, "expenses")
            balance == Total(Summary, "net")
            months == result.monthsOfRunway
        IN  /\ net >= 0 => months = Infinity
            /\ net < 0 =>
                  /\ months.kind = "num"
                  \* months = floor(balance / (|net| / n))
                  /\ months.v * abs(net) <= balance * n
                  /\ balance * n < (months.v + 1) * abs(net)
                  /\ balance < 0 => months.v <= 0

\* a negative balance burning down: the runway is a negative number of months
C8_Witness ==
    /\ IsRunway
    /\ result.monthsOfRunway.kind = "num"
    /\ result.monthsOfRunway.v < 0
    /\ result.currentBalance.v < 0

----------------------------------------------------------------------------
(* C9 *)

MeanIs(r, sum, n) == IF n = 0 THEN r = NaN ELSE r.kind = "num" /\ NearestCentTiesUp(r.v, sum, n)

\* C9: for every k >= 0 and M months of history the three averages are the
\* means over exactly the min(k, M) most recent months: the window never holds
\* more than k months.
C9_WindowIsLastKMonths ==
    IsRunway =>
        LET window == LastRows(Summary, Min(arg, Len(Summary)))
            n == Len(window)
            income == Total(window, "income")
            expenses == Total(window, "expenses")
        IN  /\ Len(recentMonthsOf(Summary, arg)) <= arg
            /\ MeanIs(result.averageMonthlyIncome, income, n)
            /\ MeanIs(result.averageMonthlyExpenses, expenses, n)
            /\ MeanIs(result.averageMonthlyNet, income - expenses, n)

----------------------------------------------------------------------------
(* C10 *)

Defined(x) == x.kind # "NaN"

\* C10: with no month of history neither derived metric returns an undefined
\* number (the functions raise no error, so every field must be defined).
C10_EmptyWindowIsDefined ==
    Summary = << >> =>
        /\ IsRunway =>
              /\ Defined(result.currentBalance)
              /\ Defined(result.averageMonthlyExpenses)
              /\ Defined(result.averageMonthlyIncome)
              /\ Defined(result.averageMonthlyNet)
              /\ Defined(result.monthsOfRunway)
              /\ Defined(result.requiredMonthlyContribution)
        /\ called = "calculateSalaryPercentageOfIncome" =>
              /\ Defined(result.monthlySalaryExpenses)
              /\ Defined(result.avgMonthlyIncome)
              /\ Defined(result.avgMonthlyRecurringIncome)
              /\ Defined(result.percentageOfTotalIncome)
              /\ Defined(result.percentageOfRecurringIncome)

----------------------------------------------------------------------------
(* C1 *)

\* what each report function returns for a list and an argument
Report(name, transactions, a) ==
    CASE name = "calculateMonthlyData" -> calculateMonthlyData(transactions)
      [] name = "analyzeIncomeSources" -> analyzeIncomeSources(transactions)
      [] name = "analyzeExpenses" -> analyzeExpenses(transactions)
      [] name = "analyzeExpensesByCategory" -> analyzeExpensesByCategory(transactions)
      [] name = "analyzeExpensesByCategoryFull" -> analyzeExpensesByCategoryFull(transactions)
      [] name = "analyzeContributions" -> analyzeContributions(transactions)
      [] name = "analyzeMonthlyRecurringContributions" ->
            analyzeMonthlyRecurringContributions(transactions)
      [] name = "analyzeSalariedExpenses" -> analyzeSalariedExpenses(transactions)
      [] name = "calculateRunwayProjection" -> calculateRunwayProjection(transactions, a)
      [] name = "calculateSalaryPercentageOfIncome" ->
            calculateSalaryPercentageOfIncome(transactions)
      [] name = "getTopContributors" -> getTopContributors(transactions, a)
      [] name = "getTopExpenses" -> getTopExpenses(transactions, a)
      [] name = "getLargestSingleContributions" -> getLargestSingleContributions(transactions, a)
      [] name = "getLargestOneTimeContributions" ->
            getLargestOneTimeContributions(transactions, a)
      [] name = "categorizeIncome" -> categorizeIncome(transactions)
      [] name = "categorizeMonthlyIncome" -> categorizeMonthlyIncome(transactions)
      [] name = "analyzeOtherIncome" -> analyzeOtherIncome(transactions)

\* the list without its rows at the indices gone, in order
Without(gone) ==
    LET keep == (1..Len(txs)) \ gone
        place(i) == Cardinality({j \in keep : j <= i})
    IN  [r \in 1..Cardinality(keep) |-> txs[CHOOSE i \in keep : place(i) = r]]

FlagSet(flag) == flag = <<"true">>

\* excluded as the claim has it: a flag set, or a reverse reference that is not empty
ExcludedAsStated(tx) ==
    \/ FlagSet(tx.IsReverse)
    \/ FlagSet(tx.IsReversed)
    \/ tx.ReverseTransactionID.type = "number"
    \/ tx.ReverseTransactionID.type = "string" /\ tx.ReverseTransactionID.str # << >>

\* excluded as amended: the reverse reference is a non-empty string or a number
\* other than 0
ExcludedAsAmended(tx) ==
    \/ FlagSet(tx.IsReverse)
    \/ FlagSet(tx.IsReversed)
    \/ tx.ReverseTransactionID.type = "number" /\ tx.ReverseTransactionID.num # 0
    \/ tx.ReverseTransactionID.type = "string" /\ tx.ReverseTransactionID.str # << >>

----------------------------------------------------------------------------
(* C4 *)

Values(rows, f) == {rows[i][f] : i \in 1..Len(rows)}

NumValues(fields) == {result[f].v : f \in {g \in fields : result[g].kind = "num"}}

RECURSIVE UnionOver(_, _)
UnionOver(S, sets) ==
    IF S = {} THEN {}
    ELSE LET first == CHOOSE j \in S : TRUE
         IN  sets[first] \cup UnionOver(S \ {first}, sets)

\* every monetary amount of the report last returned, in half cents
MonetaryOutputs ==
    CASE called = "calculateMonthlyData" ->
            Values(result, "income") \cup Values(result, "expenses") \cup Values(result, "net")
      [] called \in {"analyzeIncomeSources", "analyzeExpenses", "analyzeExpensesByCategory",
                     "analyzeExpensesByCategoryFull", "getTopContributors", "getTopExpenses",
                     "getLargestSingleContributions", "getLargestOneTimeContributions",
                     "analyzeOtherIncome"} ->
            Values(result, "amount")
      [] called = "analyzeContributions" ->
            {result.recurring.amount, result.oneTime.amount}
            \cup Values(result.recurring.contributors, "amount")
            \cup Values(result.oneTime.contributors, "amount")
      [] called = "analyzeMonthlyRecurringContributions" ->
            Values(result, "recurring") \cup Values(result, "oneTime")
      [] called = "analyzeSalariedExpenses" ->
            Values(result, "totalPaid")
            \cup {result[i].monthlyAverage.v : i \in 1..Len(result)}
      [] called = "calculateRunwayProjection" ->
            NumValues({"currentBalance", "averageMonthlyExpenses", "averageMonthlyIncome",
                       "averageMonthlyNet", "requiredMonthlyContribution"})
      [] called = "calculateSalaryPercentageOfIncome" ->
            NumValues({"monthlySalaryExpenses", "avgMonthlyIncome", "avgMonthlyRecurringIncome"})
      [] called = "categorizeIncome" ->
            {result.githubSponsors.amount, result.ocRecurring.amount, result.ocOneTime.amount,
             result.other.amount, result.total}
      [] called = "categorizeMonthlyIncome" ->
            Values(result, "githubSponsors") \cup Values(result, "ocRecurring")
            \cup Values(result, "ocOneTime") \cup Values(result, "other")
            \cup UnionOver(1..Len(result),
                           [i \in 1..Len(result) |->
                               Values(result[i].topRecurring, "amount")
                               \cup Values(result[i].topOneTime, "amount")])
      [] OTHER -> {}

WholeCents(x) == x % 2 = 0

\* C4: every monetary amount in every output of every report function is a
\* whole number of cents, whatever the number of decimals of the input amounts.
C4_EveryAmountIsWholeCents == \A x \in MonetaryOutputs : WholeCents(x)

----------------------------------------------------------------------------
(* C6 *)

Matches(rule, tx) ==
    LET category == rawCategory(tx)
        description == toLowerCase(tx.Description)
    IN  CASE rule = 1 ->
                \/ startsWith(category, Consultants)
                \/ includes(description, CoreMaintainerStipend)
          [] rule = 2 ->
                \/ startsWith(category, <<"Grants">>)
                \/ startsWith(category, <<"Other, Support & Commu">>)
                \/ includes(description, <<"community award">>)
          [] rule = 3 ->
                \/ category \in {<<"EXPENSE">>, <<"CONTRIBUTION">>}
                \/ \E prefix \in {<<"Expenses - Donation">>, <<"Expenses - Travel">>,
                                  <<"Contributions - Hosted">>} : startsWith(category, prefix)
          [] rule = 4 -> TRUE

FirstRule(tx) == CHOOSE r \in 1..4 : Matches(r, tx) /\ \A q \in 1..(r - 1) : ~Matches(q, tx)

\* the category by the four rules as stated
StatedCategory(tx) ==
    CASE FirstRule(tx) = 1 -> <<"Paid Maintainers">>
      [] FirstRule(tx) = 2 -> <<"Community Incentives">>
      [] FirstRule(tx) = 3 -> <<"Miscellaneous">>
      [] FirstRule(tx) = 4 -> rawCategory(tx)

\* the same with the full-featured module's extra rule
StatedCategoryWithFees(tx) ==
    IF FirstRule(tx) = 4 /\ rawCategory(tx) = <<"HOST_FEE">>
    THEN <<"OC Fees">>
    ELSE StatedCategory(tx)

KeptDebits == {i \in Kept : txs[i].CreditDebit = "DEBIT"}

\* the report holds one row per category, with the count and the amount of the
\* kept debits i with category[i] that category
CountedUnder(category) ==
    LET categories == {category[i] : i \in KeptDebits}
        members(c) == {i \in KeptDebits : category[i] = c}
    IN  /\ Len(result) = Cardinality(categories)
        /\ \A c \in categories :
              \E r \in 1..Len(result) :
                 /\ result[r].source = c
                 /\ result[r].count = Cardinality(members(c))
                 /\ NearestCentTiesUp(result[r].amount,
                                      SumOver(members(c),
                                              [i \in 1..Len(txs) |-> abs(txs[i].Amount)]),
                                      1)

\* C6 as stated: analyzeExpensesByCategory (of either module) counts every
\* non-excluded DEBIT under exactly the category of the first matching rule of
\* 1..3, and under its own category unchanged when none matches.
C6_FirstMatchingRule ==
    called \in {"analyzeExpensesByCategory", "analyzeExpensesByCategoryFull"} =>
        CountedUnder([i \in KeptDebits |-> StatedCategory(txs[i])])

\* C6 amended: as stated for the abridged module; in the full-featured module a
\* DEBIT that matches none of rules 1..3 and whose category is exactly
\* "HOST_FEE" is counted under "OC Fees", every other one as stated.
C6_FirstMatchingRuleWithFees ==
    /\ called = "analyzeExpensesByCategory" => CountedUnder([i \in KeptDebits |-> StatedCategory(txs[i])])
    /\ called = "analyzeExpensesByCategoryFull" => CountedUnder([i \in KeptDebits |-> StatedCategoryWithFees(txs[i])])

\* a debit that matches rule 1 and rule 2 is counted under Paid Maintainers only
C6_Witness ==
    /\ called = "analyzeExpensesByCategory"
    /\ \E i \in KeptDebits : Matches(1, txs[i]) /\ Matches(2, txs[i])
    /\ Len(result) = 1
    /\ result[1].source = <<"Paid Maintainers">>

----------------------------------------------------------------------------
(* C7 *)

KeptCredits == {i \in Kept : txs[i].CreditDebit = "CREDIT"}

OneTimeCredits == {i \in KeptCredits : ~isRecurringContribution(txs[i])}

\* the place of a credit among the credits sorted by descending amount, input
\* order among equals
CreditPlace(i) ==
    Cardinality({j \in KeptCredits :
                    \/ txs[j].Amount > txs[i].Amount
                    \/ txs[j].Amount = txs[i].Amount /\ j <= i})

\* out is: the credits sorted descending by amount, the first cap of them kept,
\* the recurring ones dropped, the first n of the rest kept
IsOneTimeView(out, cap, n) ==
    LET capped == {i \in OneTimeCredits : CreditPlace(i) <= cap}
        place(i) == Cardinality({j \in capped : CreditPlace(j) <= CreditPlace(i)})
    IN  /\ Len(out) = Min(n, Cardinality(capped))
        /\ \A r \in 1..Len(out) :
              \E i \in capped :
                 /\ place(i) = r
                 /\ out[r].amount = txs[i].Amount
                 /\ out[r].description = txs[i].Description
                 /\ out[r].date = txs[i].EffectiveDateTime
                 /\ ~out[r].isRecurring

\* C7: getLargestOneTimeContributions(T, N) is the non-excluded CREDITs sorted
\* descending by amount, cut to the first 1000, without the recurring ones, cut
\* to the first N (checked also for every smaller cap in the place of 1000, so
\* that the cap cuts); with at most 1000 non-excluded CREDITs that is exactly
\* the min(N, number of one-time ones) largest one-time contributions.
C7_LargestOneTime ==
    called = "getLargestOneTimeContributions" =>
        /\ IsOneTimeView(result, IntermediateLimit, arg)
        /\ \A cap \in 0..MaxArg : IsOneTimeView(largestOneTimeVia(txs, cap, arg), cap, arg)
        /\ Cardinality(KeptCredits) <= IntermediateLimit =>
              /\ Len(result) = Min(arg, Cardinality(OneTimeCredits))
              /\ \A r \in 1..Len(result) :
                    \* the r-th row is a one-time contribution fewer than r exceed
                    /\ \E i \in OneTimeCredits : result[r].amount = txs[i].Amount
                    /\ Cardinality({i \in OneTimeCredits :
                                       txs[i].Amount > result[r].amount}) < r
                    /\ r > 1 => result[r - 1].amount >= result[r].amount

\* one one-time contribution behind two larger recurring ones, asked for with
\* N = 2: exactly the one-time one is returned
C7_Witness ==
    /\ called = "getLargestOneTimeContributions"
    /\ arg = 2
    /\ Cardinality(OneTimeCredits) = 1
    /\ Cardinality(KeptCredits) = 3
    /\ \A i \in KeptCredits \ OneTimeCredits :
          \A j \in OneTimeCredits : txs[i].Amount > txs[j].Amount
    /\ Len(result) = 1

----------------------------------------------------------------------------
(* C11 *)

MonthGroupingReports ==
    {"calculateMonthlyData", "analyzeMonthlyRecurringContributions",
     "analyzeSalariedExpenses", "categorizeMonthlyIncome"}

\* C11: a month-grouping report function returns a report only for a list in
\* which every non-excluded transaction has a timestamp that is a date (for any
\* other list it fails with an error), and no bucket of a report it returns is
\* keyed by a month that is no calendar month.
C11_UnparseableDateFails ==
    called \in MonthGroupingReports =>
        /\ \A i \in Kept : txs[i].EffectiveDateTime # InvalidDate
        /\ called # "analyzeSalariedExpenses" =>
               \A r \in 1..Len(result) : result[r].month # NaNMonth

----------------------------------------------------------------------------
(* C12 *)

\* the salary-like payments to a recipient
SalaryPayments(recipient) ==
    {i \in Kept : /\ txs[i].CreditDebit = "DEBIT"
                  /\ txs[i].Kind = <<"EXPENSE">>
                  /\ isSalaryLike(txs[i])
                  /\ counterparty(txs[i]) = recipient}

IsCalendarMonth(month) == month.m \in 1..12

\* the calendar months between two months, both included
MonthsFromTo(from, to) ==
    {ym \in (from.y..to.y) \X (1..12) :
        /\ from.y * 12 + from.m <= ym[1] * 12 + ym[2]
        /\ ym[1] * 12 + ym[2] <= to.y * 12 + to.m}

\* C12: for every recipient of analyzeSalariedExpenses, firstPayment and
\* lastPayment are the smallest and the largest month of the recipient's
\* salary-like payments whatever their order, the span of calendar months from
\* firstPayment to lastPayment, both included, is at least 1, and monthlyAverage
\* is the total of the absolute amounts divided by that span (to the cent).
C12_SpanAndMonthlyAverage ==
    called = "analyzeSalariedExpenses" =>
        \A r \in 1..Len(result) :
            LET paid == SalaryPayments(result[r].recipient)
                firstPayment == result[r].firstPayment
                lastPayment == result[r].lastPayment
                monthSpan == Cardinality(MonthsFromTo(firstPayment, lastPayment))
                total == SumOver(paid, [i \in 1..Len(txs) |-> abs(txs[i].Amount)])
            IN  /\ IsCalendarMonth(firstPayment) /\ IsCalendarMonth(lastPayment)
                /\ \E i \in paid : getYearMonth(txs[i].EffectiveDateTime) = firstPayment
                /\ \E i \in paid : getYearMonth(txs[i].EffectiveDateTime) = lastPayment
                /\ \A i \in paid :
                      LET month == getYearMonth(txs[i].EffectiveDateTime)
                      IN  /\ firstPayment.y * 12 + firstPayment.m <= month.y * 12 + month.m
                          /\ month.y * 12 + month.m <= lastPayment.y * 12 + lastPayment.m
                /\ monthSpan >= 1
                /\ result[r].monthlyAverage.kind = "num"
                /\ NearestCentTiesUp(result[r].monthlyAverage.v, total, monthSpan)

----------------------------------------------------------------------------
(* C13 *)

\* the indices of the salary recipients paid more than once
PaidMoreThanOnce(salaries) == {i \in 1..Len(salaries) : salaries[i].paymentCount > 1}

\* the emitted percentage is 100 * salary / (sum / n), in tenths of a percent,
\* rounded to the nearest tenth when the average sum / n is > 0, and 0 when the
\* average is <= 0; a salary that is NaN gives NaN
IsShareOf(percentage, salary, sum, n) ==
    /\ n > 0 /\ sum > 0 /\ salary = NaN => percentage = NaN
    /\ n > 0 /\ sum > 0 /\ salary # NaN =>
          /\ percentage.kind = "num"
          /\ 2 * abs(percentage.v * sum - 1000 * salary.v * n) <= sum
    /\ n > 0 /\ sum <= 0 => percentage = Num(0)

\* C13: monthlySalaryExpenses is the sum of monthlyAverage over exactly the
\* salary recipients with paymentCount > 1, and each percentage is
\* monthlySalaryExpenses over the average of the 6 last months of its report,
\* times 100, rounded to 1 decimal, when that average is > 0, and 0 when it
\* is <= 0.
C13_SalaryShare ==
    called = "calculateSalaryPercentageOfIncome" =>
        LET salaries == analyzeSalariedExpenses(txs)
            recurring == PaidMoreThanOnce(salaries)
            salary == IF \E i \in recurring : salaries[i].monthlyAverage = NaN THEN NaN
                      ELSE Num(SumOver(recurring,
                                       [i \in 1..Len(salaries) |-> salaries[i].monthlyAverage.v]))
            months == LastRows(Summary, Min(TrailingMonths, Len(Summary)))
            contributions == analyzeMonthlyRecurringContributions(txs)
            recent == LastRows(contributions, Min(TrailingMonths, Len(contributions)))
        IN  /\ result.monthlySalaryExpenses = salary
            /\ IsShareOf(result.percentageOfTotalIncome, salary,
                         Total(months, "income"), Len(months))
            /\ IsShareOf(result.percentageOfRecurringIncome, salary,
                         Total(recent, "recurring"), Len(recent))

\* a recipient paid twice, and a share of the income and of the recurring income
\* that is not 0
C13_Witness ==
    /\ called = "calculateSalaryPercentageOfIncome"
    /\ PaidMoreThanOnce(analyzeSalariedExpenses(txs)) # {}
    /\ result.percentageOfTotalIncome.kind = "num"
    /\ result.percentageOfTotalIncome.v > 0
    /\ result.percentageOfRecurringIncome.kind = "num"
    /\ result.percentageOfRecurringIncome.v > 0

----------------------------------------------------------------------------
(* C14 *)

\* the label of a transaction's counterparty as stated
Label(tx) ==
    IF tx.OppositeAccountName # << >> THEN tx.OppositeAccountName
    ELSE IF tx.OppositeAccountHandle # << >> THEN tx.OppositeAccountHandle
    ELSE <<"Unknown">>

Labels(S) == {Label(txs[i]) : i \in S}

KeptContributions == {i \in KeptCredits : txs[i].Kind = <<"CONTRIBUTION">>}

\* the credits that are neither contributions nor GitHub Sponsors funds
OtherIncomeCredits ==
    {i \in KeptCredits :
        /\ txs[i].Kind # <<"CONTRIBUTION">>
        /\ ~(txs[i].Kind = <<"ADDED_FUNDS">>
             /\ includes(toLowerCase(Label(txs[i])), <<"github">>))}

\* the counterparty labels the report last returned holds
EmittedLabels ==
    CASE called \in {"analyzeIncomeSources", "getLargestSingleContributions",
                     "analyzeOtherIncome"} ->
            Values(result, "source")
      [] called \in {"analyzeExpenses", "analyzeSalariedExpenses"} ->
            Values(result, "recipient")
      [] called = "analyzeContributions" ->
            Values(result.recurring.contributors, "source")
            \cup Values(result.oneTime.contributors, "source")
      [] called = "categorizeMonthlyIncome" ->
            UnionOver(1..Len(result),
                      [i \in 1..Len(result) |->
                          Values(result[i].topRecurring, "name")
                          \cup Values(result[i].topOneTime, "name")])
      [] OTHER -> {}

\* the transactions the report last returned labels
LabelledRows ==
    CASE called \in {"analyzeIncomeSources", "getLargestSingleContributions"} -> KeptCredits
      [] called = "analyzeExpenses" -> KeptDebits
      [] called = "analyzeSalariedExpenses" ->
            {i \in KeptDebits : txs[i].Kind = <<"EXPENSE">> /\ isSalaryLike(txs[i])}
      [] called \in {"analyzeContributions", "categorizeMonthlyIncome"} -> KeptContributions
      [] called = "analyzeOtherIncome" -> OtherIncomeCredits
      [] OTHER -> {}

\* C14: every report that labels a counterparty labels a transaction by its
\* Opposite Account Name when that is not empty, else by its Opposite Account
\* Handle when that is not empty, else by "Unknown", and no label it emits is
\* the empty string.
C14_CounterpartyLabel ==
    /\ << >> \notin EmittedLabels
    /\ EmittedLabels \subseteq Labels(LabelledRows)
    /\ ~(called = "getLargestSingleContributions" /\ arg < Len(txs)) =>
          EmittedLabels = Labels(LabelledRows)

----------------------------------------------------------------------------
(* C15 *)

FeeCategories == {<<"HOST_FEE">>, <<"OC Fees">>}

\* the rows of a category report other than the fee rows, in order
WithoutFees(rows) == filter(rows, {r \in 1..Len(rows) : rows[r].source \notin FeeCategories})

\* the debits the abridged module reports under HOST_FEE or under OC Fees
FeeDebits == {i \in KeptDebits : mapCategory(txs[i]) \in FeeCategories}

\* C15: the two modules differ in analyzeExpensesByCategory only, and there only
\* in that the debits the abridged module reports under "HOST_FEE" (their
\* category is exactly "HOST_FEE" and none of rules 1..3 matches) are reported
\* under "OC Fees" by the full-featured one: every other row is the same in
\* both reports, in the same order, and the full-featured report has no
\* "HOST_FEE" row and holds under "OC Fees" the count and the amount of the
\* debits the abridged report holds under "HOST_FEE" and "OC Fees".
C15_VariantsDifferInFeesOnly ==
    called = "analyzeExpensesByCategoryFull" =>
        LET abridged == analyzeExpensesByCategory(txs)
            fees == {r \in 1..Len(result) : result[r].source \in FeeCategories}
        IN  /\ WithoutFees(result) = WithoutFees(abridged)
            /\ <<"HOST_FEE">> \notin Values(result, "source")
            /\ Cardinality(fees) = IF FeeDebits = {} THEN 0 ELSE 1
            /\ \A r \in fees :
                  /\ result[r].count = Cardinality(FeeDebits)
                  /\ NearestCentTiesUp(result[r].amount,
                                       SumOver(FeeDebits,
                                               [i \in 1..Len(txs) |-> abs(txs[i].Amount)]),
                                       1)

\* a host fee and a debit of another category, reported by the full-featured module
C15_Witness ==
    /\ called = "analyzeExpensesByCategoryFull"
    /\ \E i \in KeptDebits : mapCategory(txs[i]) = <<"HOST_FEE">>
    /\ \E i \in KeptDebits : mapCategory(txs[i]) \notin FeeCategories
    /\ <<"OC Fees">> \in Values(result, "source")
    /\ Len(result) = 2

----------------------------------------------------------------------------
(* C16 *)

Empty(text) == text = Null \/ text = << >>

\* the category string as stated: the name, else the kind, else "Uncategorized"
StatedCategoryString(tx) ==
    IF ~Empty(tx.AccountingCategoryName) THEN tx.AccountingCategoryName
    ELSE IF ~Empty(tx.Kind) THEN tx.Kind
    ELSE <<"Uncategorized">>

\* the list with every Accounting Category Name set to the stated category string
WithStatedCategory ==
    [i \in 1..Len(txs) |->
        [txs[i] EXCEPT !.AccountingCategoryName = StatedCategoryString(txs[i])]]

\* C16: analyzeExpensesByCategory (of either module) applies its rules to the
\* Accounting Category Name when that is not empty, otherwise to the Kind when
\* that is not empty, otherwise to "Uncategorized": its report is the report of
\* the list in which every row carries that string as its category name, so a
\* DEBIT whose category name is null or the empty string is classified by its
\* Kind.
C16_CategoryStringFallsBackToKind ==
    /\ called = "analyzeExpensesByCategory" =>
          result = analyzeExpensesByCategory(WithStatedCategory)
    /\ called = "analyzeExpensesByCategoryFull" =>
          result = analyzeExpensesByCategoryFull(WithStatedCategory)

----------------------------------------------------------------------------
(* C17 *)

IncomeBuckets == {"githubSponsors", "ocRecurring", "ocOneTime", "other"}

\* the bucket of a credit as stated
StatedBucket(tx) ==
    IF tx.Kind = <<"ADDED_FUNDS">> /\ includes(toLowerCase(Label(tx)), <<"github">>)
    THEN "githubSponsors"
    ELSE IF tx.Kind = <<"CONTRIBUTION">>
    THEN (IF includes(toLowerCase(tx.Description), <<"monthly contribution">>)
          THEN "ocRecurring" ELSE "ocOneTime")
    ELSE "other"

CreditsOf(bucket) == {i \in KeptCredits : StatedBucket(txs[i]) = bucket}

\* C17: categorizeIncome counts every non-excluded CREDIT in exactly the bucket
\* stated and counts no DEBIT: each bucket holds the count and the amount of
\* its credits, the four counts sum to the number of non-excluded CREDITs and
\* total is the sum of their amounts.
C17_IncomeBuckets ==
    called = "categorizeIncome" =>
        /\ \A b \in IncomeBuckets :
              /\ result[b].count = Cardinality(CreditsOf(b))
              /\ NearestCentTiesUp(result[b].amount,
                                   SumOver(CreditsOf(b), [i \in 1..Len(txs) |-> txs[i].Amount]),
                                   1)
        /\ SumOver(IncomeBuckets, [b \in IncomeBuckets |-> result[b].count])
              = Cardinality(KeptCredits)
        /\ NearestCentTiesUp(result.total,
                             SumOver(KeptCredits, [i \in 1..Len(txs) |-> txs[i].Amount]),
                             1)

\* a GitHub Sponsors credit known by its handle only, a contribution from a
\* counterparty named GitHub, and a debit
C17_Witness ==
    /\ called = "categorizeIncome"
    /\ \E i \in CreditsOf("githubSponsors") : txs[i].OppositeAccountName = << >>
    /\ \E i \in CreditsOf("ocRecurring") : txs[i].OppositeAccountName = <<"GitHub">>
    /\ KeptDebits # {}
    /\ result.githubSponsors.count = 1
    /\ result.ocRecurring.count = 1

----------------------------------------------------------------------------
(* C18 *)

ContributionSides == {"recurring", "oneTime"}

\* the side of a contribution as stated
StatedSide(tx) ==
    IF includes(toLowerCase(tx.Description), <<"monthly contribution">>)
    THEN "recurring" ELSE "oneTime"

ContributionsOf(side) == {i \in KeptContributions : StatedSide(txs[i]) = side}

\* C18: analyzeContributions counts every non-excluded CREDIT of kind
\* CONTRIBUTION on the side stated and nothing else: each side's count is the
\* number of its contributions, the two counts sum to the number of such
\* transactions, and on each side amount is the sum of the amounts of its
\* contributors and count the sum of their counts.
C18_ContributionSides ==
    called = "analyzeContributions" =>
        /\ \A side \in ContributionSides :
              /\ result[side].count = Cardinality(ContributionsOf(side))
              /\ result[side].count = Total(result[side].contributors, "count")
              /\ result[side].amount = Total(result[side].contributors, "amount")
        /\ result.recurring.count + result.oneTime.count = Cardinality(KeptContributions)

\* contributions on both sides, one of them recurring by a capitalised
\* description, beside a credit that is no contribution
C18_Witness ==
    /\ called = "analyzeContributions"
    /\ result.recurring.count = 1
    /\ result.oneTime.count = 1
    /\ \E i \in ContributionsOf("recurring") : txs[i].Description[1] = "Monthly Contribution"
    /\ KeptCredits \ KeptContributions # {}

----------------------------------------------------------------------------
(* C19 *)

\* "YYYY-MM" keys in ascending order; the key "NaN-NaN" is behind every month
KeyBefore(a, b) ==
    /\ a # NaNMonth
    /\ b # NaNMonth => a.y * 12 + a.m < b.y * 12 + b.m

MonthlyReports == {"calculateMonthlyData", "analyzeMonthlyRecurringContributions"}

KeyedReports ==
    {"analyzeIncomeSources", "analyzeExpenses", "analyzeExpensesByCategory",
     "analyzeExpensesByCategoryFull", "analyzeSalariedExpenses"}

\* the transactions the report last returned counts
CountedRows ==
    CASE called = "calculateMonthlyData" -> Kept
      [] called = "analyzeMonthlyRecurringContributions" -> KeptContributions
      [] called = "analyzeIncomeSources" -> KeptCredits
      [] called \in {"analyzeExpenses", "analyzeExpensesByCategory",
                     "analyzeExpensesByCategoryFull"} -> KeptDebits
      [] called = "analyzeSalariedExpenses" ->
            {i \in KeptDebits : txs[i].Kind = <<"EXPENSE">> /\ isSalaryLike(txs[i])}
      [] OTHER -> {}

\* the key under which the report last returned counts a transaction
KeyOfRow(i) ==
    CASE called \in MonthlyReports -> getYearMonth(txs[i].EffectiveDateTime)
      [] called = "analyzeExpensesByCategory" -> mapCategory(txs[i])
      [] called = "analyzeExpensesByCategoryFull" -> mapCategoryFull(txs[i])
      [] OTHER -> Label(txs[i])

\* the key and the amount an entry of the report is sorted by
KeyOfEntry(entry) ==
    CASE called \in MonthlyReports -> entry.month
      [] called \in {"analyzeExpenses", "analyzeSalariedExpenses"} -> entry.recipient
      [] OTHER -> entry.source

AmountOfEntry(entry) ==
    IF called = "analyzeSalariedExpenses" THEN entry.totalPaid ELSE entry.amount

\* the first transaction counted under a key
FirstOccurrence(key) ==
    CHOOSE i \in CountedRows :
        KeyOfRow(i) = key /\ \A j \in CountedRows : KeyOfRow(j) = key => i <= j

\* C19: the monthly reports hold one entry per distinct month in strictly
\* ascending order of month key; the keyed reports hold their entries in
\* non-increasing order of emitted amount, entries of equal amount in the
\* order in which their keys first occur among the transactions counted;
\* getLargestSingleContributions holds the credits in non-increasing order of
\* amount, credits of equal amount in input order.
C19_OutputOrder ==
    /\ called \in MonthlyReports =>
          /\ {result[r].month : r \in 1..Len(result)} = {KeyOfRow(i) : i \in CountedRows}
          /\ \A r, q \in 1..Len(result) :
                r < q => KeyBefore(result[r].month, result[q].month)
    /\ called \in KeyedReports =>
          \A r, q \in 1..Len(result) :
             r < q =>
                \/ AmountOfEntry(result[r]) > AmountOfEntry(result[q])
                \/ /\ AmountOfEntry(result[r]) = AmountOfEntry(result[q])
                   /\ FirstOccurrence(KeyOfEntry(result[r]))
                         < FirstOccurrence(KeyOfEntry(result[q]))
    /\ called = "getLargestSingleContributions" =>
          /\ Len(result) = Min(arg, Cardinality(KeptCredits))
          /\ \A r \in 1..Len(result) :
                \E i \in KeptCredits :
                   /\ CreditPlace(i) = r
                   /\ result[r].amount = txs[i].Amount
                   /\ result[r].source = Label(txs[i])
                   /\ result[r].date = txs[i].EffectiveDateTime

\* two counterparties of equal amount, Bob ahead of Acme because Bob's row comes
\* first in the input
C19_Witness ==
    /\ called \in KeyedReports
    /\ Len(result) = 2
    /\ AmountOfEntry(result[1]) = AmountOfEntry(result[2])
    /\ KeyOfEntry(result[1]) = <<"Bob">>
    /\ KeyOfEntry(result[2]) = <<"Acme">>

----------------------------------------------------------------------------
(* C20 *)

\* a <= b on JS numbers: false when either is NaN
AtMost(a, b) == a.kind = "num" /\ b.kind = "num" /\ a.v <= b.v

\* C20: when no CREDIT amount is negative and at least one month has history,
\* calculateSalaryPercentageOfIncome returns an avgMonthlyRecurringIncome that
\* is at most its avgMonthlyIncome.
C20_RecurringAtMostIncome ==
    /\ called = "calculateSalaryPercentageOfIncome"
    /\ Summary # << >>
    /\ \A i \in 1..Len(txs) : txs[i].CreditDebit = "CREDIT" => txs[i].Amount >= 0
    => AtMost(result.avgMonthlyRecurringIncome, result.avgMonthlyIncome)

----------------------------------------------------------------------------
(* C21 *)

Finite(x) == x.kind = "num"

\* C21: with at least one month of history the fields calculateRunwayProjection
\* returns agree with each other: monthsOfRunway is finite exactly when the
\* returned requiredMonthlyContribution is > 0, and exactly when the returned
\* averageMonthlyNet is < 0; requiredMonthlyContribution is never negative and
\* is max(0, averageMonthlyExpenses - averageMonthlyIncome) of the returned
\* averages.
C21_RunwayFieldsAgree ==
    IsRunway /\ Summary # << >> =>
        LET required == result.requiredMonthlyContribution.v
            gap == result.averageMonthlyExpenses.v - result.averageMonthlyIncome.v
        IN  /\ Finite(result.monthsOfRunway) <=> required > 0
            /\ Finite(result.monthsOfRunway) <=> result.averageMonthlyNet.v < 0
            /\ required >= 0
            /\ required = (IF gap > 0 THEN gap ELSE 0)

====
